---- MODULE Spec2Model ----
(***************************************************************************)
(* Verification model of HttpReq: the request dispatch pipeline of          *)
(* src/src/HttpReq.ts (AxiosHttpClient and SuperagentHttpClient), the       *)
(* shared query utilities (mergeQueryParameters, processKeyPairs,           *)
(* processQueryObject), the retry classification isValidRetryErr, and the   *)
(* JavaScript AxiosAdapter of src/src/HttpReq.js.                           *)
(*                                                                         *)
(* Text that the code takes apart (URLs, query strings, query values) is a  *)
(* sequence of one-character strings, so that split and join are computed   *)
(* as the code computes them.  Error codes and messages are only compared   *)
(* for membership in the whitelist and are plain strings.                   *)
(*                                                                         *)
(* The log text of formatRsp and logRequest is computed character by        *)
(* character (JSON.stringify, the punctuation strip and the replacements    *)
(* of the Authorization and verification-token lines), for formatRsp of     *)
(* HttpReq.ts and for the one of SuperagentAdapter.ts.  The loading of the  *)
(* backing library is followed from the import of the module through the    *)
(* constructor to the first method call.                                    *)
(*                                                                         *)
(* Further specifications run two calls side by side (SpecConcurrent), the  *)
(* same call on both clients against one script of transport outcomes      *)
(* (SpecTwin), calls whose attempts may get no answer (SpecLive), calls     *)
(* with a logger that throws (SpecSink) and a second formatting of the same *)
(* response (SpecFormatTwice).                                              *)
(***************************************************************************)
EXTENDS Integers, Sequences, FiniteSets, TLC

VARIABLES
    client,          \* which implementation serves the call
    sink,            \* behaviour of the logger sink given at construction
    library,         \* what loading the transport's backing library does
    other,           \* a second call in flight whose continuation is waiting
    pc,              \* position of the call: idle, attempt, done, failed, ...
    method,          \* HTTP method name of the call
    url,             \* requestUrl argument
    data,            \* the caller's data object {headers, body, query}
    baseUrl,         \* local baseUrl of send
    processedQuery,  \* local processedQuery of send
    finalHeaders,    \* local finalHeaders of send
    attempt,         \* loop counter of the retry loop
    sent,            \* requests handed to the transport during this call
    errs,            \* errors raised by the transport during this call
    rsps,            \* responses the transport received during this call
    logs,            \* blocks handed to the logger sink during this call
    outcome,         \* what the caller's promise settled with
    arg,             \* argument of a direct isValidRetryErr call
    ret              \* what that direct call returned

vars == << client, sink, library, other, pc, method, url, data, baseUrl, processedQuery,
           finalHeaders, attempt, sent, errs, rsps, logs, outcome, arg, ret >>

-----------------------------------------------------------------------------
(* Bounds of the model *)

\* longest raw query string (characters after the base URL and its '?')
MaxQueryLen == 3

-----------------------------------------------------------------------------
(* Text *)

\* characters a URL's query part is drawn from
QueryChars == {"a", "b", "1", "=", "&", "?"}

\* the base of every URL of the model (stands for scheme://host/path)
BaseText == << "u" >>

RECURSIVE SplitAcc(_, _, _, _)
SplitAcc(s, d, cur, acc) ==
    IF s = << >> THEN Append(acc, cur)
    ELSE IF Head(s) = d
         THEN SplitAcc(Tail(s), d, << >>, Append(acc, cur))
         ELSE SplitAcc(Tail(s), d, Append(cur, Head(s)), acc)

\* String.prototype.split(d) for a one-character separator d
Split(s, d) == SplitAcc(s, d, << >>, << >>)

RECURSIVE Join(_, _)
\* Array.prototype.join(d) over an array of texts
Join(parts, d) ==
    IF parts = << >> THEN << >>
    ELSE IF Len(parts) = 1 THEN parts[1]
         ELSE parts[1] \o << d >> \o Join(Tail(parts), d)

-----------------------------------------------------------------------------
(* JavaScript values that occur as query values *)

JSUndefined == [t |-> "undefined"]
JSNull == [t |-> "null"]
JSString(s) == [t |-> "string", v |-> s]
JSNumber(n) == [t |-> "number", v |-> n]
JSBoolean(b) == [t |-> "boolean", v |-> b]
JSArray(a) == [t |-> "array", v |-> a]

Digit(n) == CASE n = 0 -> "0" [] n = 1 -> "1" [] n = 2 -> "2" [] n = 3 -> "3"
              [] n = 4 -> "4" [] n = 5 -> "5" [] n = 6 -> "6" [] n = 7 -> "7"
              [] n = 8 -> "8" [] n = 9 -> "9"

RECURSIVE NumberText(_)
\* decimal text of a natural number
NumberText(n) == IF n < 10 THEN << Digit(n) >>
                 ELSE NumberText(n \div 10) \o << Digit(n % 10) >>

\* String(value) for a scalar
ScalarText(x) ==
    CASE x.t = "string" -> x.v
      [] x.t = "number" -> NumberText(x.v)
      [] x.t = "boolean" -> IF x.v THEN << "t", "r", "u", "e" >>
                                   ELSE << "f", "a", "l", "s", "e" >>
      [] x.t = "null" -> << "n", "u", "l", "l" >>
      [] x.t = "undefined" -> << "u", "n", "d", "e", "f", "i", "n", "e", "d" >>

\* the text Array.prototype.join uses for one element: null and undefined
\* elements contribute the empty text
ElementText(x) == IF x.t \in {"null", "undefined"} THEN << >> ELSE ScalarText(x)

\* value.join(',') for an array value
JoinArray(a) == Join([i \in 1..Len(a) |-> ElementText(a[i])], ",")

\* String(value), HttpReq.ts line 835
StringOf(x) == IF x.t = "array" THEN JoinArray(x.v) ELSE ScalarText(x)

-----------------------------------------------------------------------------
(* Query utilities of HttpReq.ts *)

\* an object as a function from its own keys to values
EmptyObject == [k \in {} |-> JSUndefined]

\* obj[k] = v
SetKey(obj, k, v) == [j \in (DOMAIN obj) \cup {k} |-> IF j = k THEN v ELSE obj[j]]

\* a spread in which the entries of a win over those of b
SpreadFirstWins(a, b) == [k \in (DOMAIN a) \cup (DOMAIN b) |-> IF k \in DOMAIN a THEN a[k] ELSE b[k]]

\* { ...a, ...b }
Spread(a, b) == [k \in (DOMAIN a) \cup (DOMAIN b) |-> IF k \in DOMAIN b THEN b[k] ELSE a[k]]

\* pairAr[1] of processKeyPairs: undefined when the pair holds no '='
PairValue(pairAr) == IF Len(pairAr) >= 2 THEN JSString(pairAr[2]) ELSE JSUndefined

RECURSIVE SetPairs(_, _)
\* pairs.forEach(pairStr => resultMap.set(pairAr[0], pairAr[1]))
SetPairs(pairs, resultMap) ==
    IF pairs = << >> THEN resultMap
    ELSE LET pairAr == Split(Head(pairs), "=")
         IN  SetPairs(Tail(pairs), SetKey(resultMap, pairAr[1], PairValue(pairAr)))

processKeyPairs(str) == SetPairs(Split(str, "&"), EmptyObject)

\* the query object handed in: absent (undefined), null, or an object
NoQuery == [t |-> "undefined", props |-> EmptyObject]
NullQuery == [t |-> "null", props |-> EmptyObject]
QueryObject(props) == [t |-> "object", props |-> props]

mergeQueryParameters(u, queryObj) ==
    LET parts == Split(u, "?")
        hasQueryStr == Len(parts) >= 2 /\ parts[2] # << >>
        urlQuery == IF hasQueryStr THEN processKeyPairs(parts[2]) ELSE EmptyObject
    IN  [baseUrl |-> parts[1], mergedQuery |-> Spread(urlQuery, queryObj.props)]

\* processQueryObject without its test for the empty array
KeepsValueNoEmptyArrayTest(value) ==
    /\ value.t \notin {"null", "undefined"}
    /\ ~(value.t = "string" /\ value.v = << >>)

\* processQueryObject with a truthiness test in place of its three comparisons
KeepsValueTruthy(value) ==
    /\ value.t \notin {"null", "undefined"}
    /\ ~(value.t = "string" /\ value.v = << >>)
    /\ ~(value.t = "array" /\ value.v = << >>)
    /\ ~(value.t = "number" /\ value.v = 0)
    /\ ~(value.t = "boolean" /\ value.v = FALSE)

\* whether processQueryObject keeps the entry
KeepsValue(value) ==
    /\ value.t \notin {"null", "undefined"}
    /\ ~(value.t = "string" /\ value.v = << >>)
    /\ ~(value.t = "array" /\ value.v = << >>)

processQueryObject(queryObj) ==
    [key \in {k \in DOMAIN queryObj : KeepsValue(queryObj[k])} |-> StringOf(queryObj[key])]

-----------------------------------------------------------------------------
(* Errors and retry classification *)

validRetryErrs == {"ECONNREFUSED", "ECONNRESET", "ETIMEDOUT", "EADDRINFO", "ESOCKETTIMEDOUT"}

\* a string that is only compared, never taken apart
Str(s) == [t |-> "string", v |-> s]

\* an error-like object with the given own properties
ErrObject(props) == [t |-> "object", props |-> props]

CodeMessage(c, m) == ErrObject([p \in {"code", "message"} |-> IF p = "code" THEN c ELSE m])
MessageOnly(m) == ErrObject([p \in {"message"} |-> m])
CodeOnly(c) == ErrObject([p \in {"code"} |-> c])

\* obj.p for a non-null obj: undefined when the property is missing
Prop(obj, p) == IF p \in DOMAIN obj.props THEN obj.props[p] ELSE JSUndefined

\* JavaScript truthiness of a property value
Truthy(x) == x.t = "string" /\ x.v # ""

\* validRetryErrs.includes(x)
Includes(x) == x.t = "string" /\ x.v \in validRetryErrs

\* outcome of a synchronous call: a returned boolean or a thrown TypeError
Returned(b) == [threw |-> FALSE, value |-> b]
ThrewTypeError == [threw |-> TRUE, value |-> FALSE]

\* AxiosHttpClient.isValidRetryErr
AxiosIsValidRetryErr(error) ==
    IF error.t = "string" THEN Returned(Includes(error))
    ELSE IF error.t \in {"null", "undefined"} THEN ThrewTypeError
    ELSE IF "code" \in DOMAIN error.props /\ Truthy(error.props["code"])
         THEN Returned(Includes(error.props["code"]))
         ELSE Returned(Includes(Prop(error, "message")))

\* SuperagentHttpClient.isValidRetryErr
SuperagentIsValidRetryErr(err) ==
    IF err.t = "string" THEN Returned(Includes(err))
    ELSE IF err.t \in {"null", "undefined"} THEN ThrewTypeError
    ELSE IF Prop(err, "code").t \notin {"null", "undefined"}
         THEN Returned(Includes(Prop(err, "code")))
         ELSE Returned(Includes(Prop(err, "message")))

\* HttpReq.isValidRetryErr: delegates to the configured client
isValidRetryErr(c, error) ==
    IF c = "axios" THEN AxiosIsValidRetryErr(error) ELSE SuperagentIsValidRetryErr(error)

\* the retry test in the catch block of send
\*   axios:      this.isValidRetryErr(error)
\*   superagent: this.isValidRetryErr(typedError.code ?? typedError.message ?? '')
CatchRetries(c, error) ==
    IF c = "axios" THEN AxiosIsValidRetryErr(error).value
    ELSE LET code == Prop(error, "code")
             message == Prop(error, "message")
             passed == IF code.t \notin {"null", "undefined"} THEN code
                       ELSE IF message.t \notin {"null", "undefined"} THEN message
                       ELSE Str("")
         IN  SuperagentIsValidRetryErr(passed).value

-----------------------------------------------------------------------------
(* Requests, responses and the log block *)

Methods == {"GET", "POST", "PUT", "PATCH", "DELETE"}

\* the two clients of HttpReq.ts
TSClients == {"axios", "superagent"}

\* for (let attempt = 0; attempt <= 3; attempt++)
LastAttempt == 3

\* a headers or body object of the caller: undefined, or an object whose
\* property names and values are plain strings
Undefined == [t |-> "undefined", props |-> << >>]
Obj(props) == [t |-> "object", props |-> props]

\* the placeholder a sensitive body field is replaced by, or the value itself
Obfuscated(field, value) ==
    IF field = "access_key" /\ value # "" THEN "ACCESS KEY HIDDEN"
    ELSE IF field = "password" /\ value # "" THEN "PASSWORD HIDDEN"
    ELSE value

\* obfuscate of HttpReq.ts: fixedArgs aliases args, so the result is also the
\* new content of the object that was passed in
obfuscate(args) == [f \in DOMAIN args |-> Obfuscated(f, args[f])]

\* finalHeaders of send: GET puts Accept first and spreads the caller's over it
FinalHeaders(m, headers) ==
    IF m = "GET"
    THEN [h \in {"Accept"} \cup DOMAIN headers.props |->
             IF h \in DOMAIN headers.props THEN headers.props[h] ELSE "application/json"]
    ELSE headers.props

\* what one transport invocation carries
Request(m, base, headers, body, query) ==
    [method |-> m, url |-> base, headers |-> headers, data |-> body, params |-> query]

\* a formatRsp that takes the sensitive fields out of the request once it
\* has written their placeholders
BodyAfterFormatWithoutSecrets(body) ==
    IF body.t = "object"
    THEN Obj([f \in DOMAIN body.props \ {"password", "access_key"} |-> body.props[f]])
    ELSE body

\* body of the caller after formatRsp ran obfuscate on res.request._data
BodyAfterFormat(body) ==
    IF body.t = "object" THEN Obj(obfuscate(body.props)) ELSE body

\* formattedResponse of send; its _data is the caller's body object itself
FormattedResponse(rsp, m, u, headers, body) ==
    [status |-> rsp.status, body |-> rsp.body,
     request |-> [method |-> m, url |-> u, header |-> headers, _data |-> body]]

\* the block logRequest(formatRsp(res), startDate) hands to the sink: the
\* request line, the sent headers, the obfuscated body and the response
LogBlock(res) ==
    [req |-> [method |-> res.request.method, url |-> res.request.url,
              header |-> res.request.header, _data |-> BodyAfterFormat(res.request._data)],
     rsp |-> [status |-> res.status, body |-> res.body]]

\* settled state of the promise the caller holds
Pending == [kind |-> "pending"]
Resolved(value) == [kind |-> "resolved", value |-> value]
Rejected(error) == [kind |-> "rejected", error |-> error]

\* what require of the backing library does: it loads, or it throws error
Loads == [t |-> "loads"]
Missing(error) == [t |-> "missing", error |-> error]

\* the library loads but axios.create throws error
CreateFails(error) == [t |-> "createFails", error |-> error]

\* no second call is in flight
NoOther == [t |-> "none"]

\* logger sinks
ReturnsNormally == [t |-> "returns"]
Throwing(e) == [t |-> "throws", error |-> e]

-----------------------------------------------------------------------------
(* Inputs of the dispatch model *)

\* responses a server answers with: HTTP statuses of the classes 2xx to 5xx
Responses == {[status |-> 200, body |-> "ok"],
              [status |-> 404, body |-> "not found"],
              [status |-> 500, body |-> "server error"],
              [status |-> 599, body |-> "network connect timeout"]}

\* errors the transport rejects with
RetryableErrors == {CodeMessage(Str(c), Str("network failure")) : c \in validRetryErrs}
                       \cup {MessageOnly(Str("ETIMEDOUT"))}
OtherErrors == {CodeMessage(Str("ENOTFOUND"), Str("getaddrinfo ENOTFOUND")),
                CodeMessage(Str("ECONNABORTED"), Str("timeout of 70000ms exceeded")),
                CodeMessage(Str("ERR_NETWORK"), Str("ECONNRESET")),
                MessageOnly(Str("No response received"))}
NetworkErrors == RetryableErrors \cup OtherErrors

\* URLs and data objects the calls of the dispatch model are made with
DispatchUrls == {BaseText, BaseText \o << "?", "a", "=", "1" >>}
DispatchData ==
    {[headers |-> Undefined, body |-> Undefined, query |-> NoQuery],
     [headers |-> Obj([h \in {"Authorization"} |-> "Bearer token"]),
      body |-> Obj([f \in {"name", "password"} |-> IF f = "name" THEN "n" ELSE "secret"]),
      query |-> QueryObject([k \in {<< "a" >>} |-> JSNumber(2)])],
     [headers |-> Obj([h \in {"Accept"} |-> "text/html"]),
      body |-> Obj([f \in {"name"} |-> "n"]),
      query |-> QueryObject([k \in {<< "b" >>} |-> JSArray(<< JSString(<< "a" >>), JSString(<< "b" >>) >>)])]}

-----------------------------------------------------------------------------
(* The dispatch of HttpReq.ts: AxiosHttpClient.send, SuperagentHttpClient.send *)

\* a status test that refuses the server errors
OkBelow500(status) == status < 500

\* validateStatus: (status) => status < 600 and .ok(res => res.status < 600)
Ok(status) == status < 600

\* what the transport library rejects with when Ok refuses the status
StatusError(rsp) ==
    IF client \in {"axios", "axiosJS"}
    THEN CodeMessage(Str("ERR_BAD_RESPONSE"), Str("Request failed with status code"))
    ELSE MessageOnly(Str("Unsuccessful HTTP response"))

\* a retry that hands the transport the request without its body
CurrentRequestWithoutBody == Request(method, baseUrl, finalHeaders, Undefined, processedQuery)

\* the request every attempt of the current call hands to the transport
CurrentRequest == Request(method, baseUrl, finalHeaders, data.body, processedQuery)

\* GET/POST/PUT/PATCH/DELETE(url, data): send up to its first await
Call(m, u, d) ==
    /\ pc = "idle"
    /\ client \in TSClients
    /\ library = Loads
    /\ LET merged == mergeQueryParameters(u, d.query)
           query == processQueryObject(merged.mergedQuery)
           headers == FinalHeaders(m, d.headers)
       IN  /\ method' = m
           /\ url' = u
           /\ data' = d
           /\ baseUrl' = merged.baseUrl
           /\ processedQuery' = query
           /\ finalHeaders' = headers
           /\ sent' = << Request(m, merged.baseUrl, headers, d.body, query) >>
    /\ attempt' = 0
    /\ errs' = << >>
    /\ rsps' = << >>
    /\ logs' = << >>
    /\ outcome' = Pending
    /\ pc' = "attempt"
    /\ UNCHANGED << client, sink, library, other, arg, ret >>

\* the loop test with one retry too few
RetriesOneFewer(error) == attempt < LastAttempt - 1 /\ CatchRetries(client, error)

\* the loop test with one retry too many
RetriesOneMore(error) == attempt <= LastAttempt /\ CatchRetries(client, error)

\* the loop test without the classification of the error
RetriesAnyError(error) == attempt < LastAttempt

\* whether the loop of send goes round again after catching error
Retries(error) == attempt < LastAttempt /\ CatchRetries(client, error)

\* a catch block that hands a block to the sink before it rethrows
CatchLogsFailure(error) ==
    /\ IF Retries(error)
       THEN /\ attempt' = attempt + 1
            /\ sent' = Append(sent, CurrentRequest)
            /\ logs' = logs
            /\ UNCHANGED << pc, outcome >>
       ELSE /\ pc' = "failed"
            /\ outcome' = Rejected(error)
            /\ logs' = Append(logs, [req |-> CurrentRequest, rsp |-> error])
            /\ UNCHANGED << attempt, sent >>
    /\ UNCHANGED data

\* a catch block that hands a block to the sink before it retries
CatchLogsAttempt(error) ==
    /\ IF Retries(error)
       THEN /\ attempt' = attempt + 1
            /\ sent' = Append(sent, CurrentRequest)
            /\ logs' = Append(logs, [req |-> CurrentRequest, rsp |-> error])
            /\ UNCHANGED << pc, outcome >>
       ELSE /\ pc' = "failed"
            /\ outcome' = Rejected(error)
            /\ logs' = logs
            /\ UNCHANGED << attempt, sent >>
    /\ UNCHANGED data

\* the catch block of the retry loop: continue with the next attempt, which
\* hands the same request to the transport, or rethrow error to the caller
Catch(error) ==
    /\ IF Retries(error)
       THEN /\ attempt' = attempt + 1
            /\ sent' = Append(sent, CurrentRequest)
            /\ UNCHANGED << pc, outcome >>
       ELSE /\ pc' = "failed"
            /\ outcome' = Rejected(error)
            /\ UNCHANGED << attempt, sent >>
    /\ UNCHANGED << data, logs >>

\* this.logger(formattedRsp): the blocks the sink is handed for one response
SinkBlocks(res) == << LogBlock(res) >>

\* the code of send that follows a response of the transport: it builds
\* formattedResponse, formats it (obfuscate rewrites the caller's body), hands
\* the block to the sink and returns.  The axios client does this after its
\* loop; the superagent client does it inside the try of its loop, so what the
\* sink throws reaches the catch block.
Success(rsp) ==
    LET body == BodyAfterFormat(data.body)
        res == FormattedResponse(rsp, method, url, finalHeaders, data.body)
    IN  /\ data' = [data EXCEPT !.body = body]
        /\ logs' = logs \o SinkBlocks(res)
        /\ IF sink.t = "returns"
           THEN /\ pc' = "done"
                /\ outcome' = Resolved(FormattedResponse(rsp, method, url, finalHeaders, body))
                /\ UNCHANGED << attempt, sent >>
           ELSE IF client = "superagent" /\ Retries(sink.error)
           THEN /\ attempt' = attempt + 1
                /\ sent' = Append(sent, Request(method, baseUrl, finalHeaders, body, processedQuery))
                /\ UNCHANGED << pc, outcome >>
           ELSE /\ pc' = "failed"
                /\ outcome' = Rejected(sink.error)
                /\ UNCHANGED << attempt, sent >>

\* the attempt in flight fails without a response from the server
Fail(error) ==
    /\ pc = "attempt"
    /\ client \in TSClients
    /\ errs' = Append(errs, error)
    /\ Catch(error)
    /\ UNCHANGED << client, sink, library, other, method, url, baseUrl, processedQuery,
                    finalHeaders, rsps, arg, ret >>

\* the server answers the attempt in flight with an HTTP status
Respond(rsp) ==
    /\ pc = "attempt"
    /\ client \in TSClients
    /\ rsps' = Append(rsps, rsp)
    /\ IF Ok(rsp.status)
       THEN Success(rsp) /\ errs' = errs
       ELSE Catch(StatusError(rsp)) /\ errs' = Append(errs, StatusError(rsp))
    /\ UNCHANGED << client, sink, library, other, method, url, baseUrl, processedQuery,
                    finalHeaders, arg, ret >>

NoCall ==
    /\ pc = "idle"
    /\ method = "GET"
    /\ url = BaseText
    /\ data = [headers |-> Undefined, body |-> Undefined, query |-> NoQuery]
    /\ baseUrl = BaseText
    /\ processedQuery = EmptyObject
    /\ finalHeaders = << >>
    /\ attempt = 0
    /\ sent = << >>
    /\ errs = << >>
    /\ rsps = << >>
    /\ logs = << >>
    /\ outcome = Pending

NoClassify ==
    /\ arg = JSUndefined
    /\ ret = Returned(FALSE)

\* new HttpReq({clientType, logger}) of HttpReq.ts with a logger that returns
Init ==
    /\ client \in TSClients
    /\ sink = ReturnsNormally
    /\ library = Loads
    /\ other = NoOther
    /\ NoCall
    /\ NoClassify

Next ==
    \/ \E m \in Methods, u \in DispatchUrls, d \in DispatchData : Call(m, u, d)
    \/ \E error \in NetworkErrors : Fail(error)
    \/ \E rsp \in Responses : Respond(rsp)

Spec == Init /\ [][Next]_vars

-----------------------------------------------------------------------------
(* The JavaScript AxiosAdapter of HttpReq.js *)

\* name and value of one pair of a URLSearchParams query: the value is the
\* text after the first '=', empty when there is none
ParamName(pairStr) == Split(pairStr, "=")[1]
ParamValue(pairStr) ==
    LET pairAr == Split(pairStr, "=")
    IN  JSString(Join(Tail(pairAr), "="))

RECURSIVE SetParams(_, _)
\* urlParams.forEach((value, key) => { mergedQuery[key] = value; }); empty
\* pairs are not parameters
SetParams(pairs, mergedQuery) ==
    IF pairs = << >> THEN mergedQuery
    ELSE IF Head(pairs) = << >> THEN SetParams(Tail(pairs), mergedQuery)
    ELSE SetParams(Tail(pairs),
                   SetKey(mergedQuery, ParamName(Head(pairs)), ParamValue(Head(pairs))))

\* baseUrl and mergedQuery as AxiosAdapter.GET computes them
JSMergeQuery(u, queryObj) ==
    LET parts == Split(u, "?")
        urlQuery == IF Len(parts) >= 2 THEN SetParams(Split(parts[2], "&"), EmptyObject)
                    ELSE EmptyObject
    IN  [baseUrl |-> parts[1], mergedQuery |-> Spread(urlQuery, queryObj.props)]

\* data.body reaches the transport and the log for POST, PUT and PATCH only
JSBody(m, d) == IF m \in {"POST", "PUT", "PATCH"} THEN d.body ELSE Undefined

\* new Error(`HTTP ${method} request failed: ${error.message}`)
WrappedError(m, error) ==
    MessageOnly([t |-> "string", v |-> "HTTP <method> request failed: <message>",
                 method |-> m, message |-> Prop(error, "message")])

\* AxiosAdapter.GET/POST/PUT/PATCH/DELETE up to the await of the axios call
JSCall(m, u, d) ==
    /\ pc = "idle"
    /\ client = "axiosJS"
    /\ LET merged == JSMergeQuery(u, d.query)
           query == processQueryObject(merged.mergedQuery)
       IN  /\ baseUrl' = merged.baseUrl
           /\ processedQuery' = query
           /\ sent' = << Request(m, merged.baseUrl, d.headers.props, JSBody(m, d), query) >>
    /\ method' = m
    /\ url' = u
    /\ data' = d
    /\ finalHeaders' = d.headers.props
    /\ attempt' = 0
    /\ errs' = << >>
    /\ rsps' = << >>
    /\ logs' = << >>
    /\ outcome' = Pending
    /\ pc' = "attempt"
    /\ UNCHANGED << client, sink, library, other, arg, ret >>

\* the catch block of the adapter method: whatever was thrown is replaced
JSCatch(error) ==
    /\ pc' = "failed"
    /\ outcome' = Rejected(WrappedError(method, error))

\* the axios call rejects
JSFail(error) ==
    /\ pc = "attempt"
    /\ client = "axiosJS"
    /\ errs' = Append(errs, error)
    /\ JSCatch(error)
    /\ UNCHANGED << client, sink, library, other, method, url, data, baseUrl, processedQuery,
                    finalHeaders, attempt, sent, rsps, logs, arg, ret >>

\* the axios call resolves: the adapter logs the block (obfuscate of HttpReq.js
\* works on a copy) and returns status and body only
JSRespond(rsp) ==
    /\ pc = "attempt"
    /\ client = "axiosJS"
    /\ rsps' = Append(rsps, rsp)
    /\ IF ~Ok(rsp.status)
       THEN /\ JSCatch(StatusError(rsp))
            /\ errs' = Append(errs, StatusError(rsp))
            /\ logs' = logs
       ELSE /\ LET res == FormattedResponse(rsp, method, url, finalHeaders, JSBody(method, data))
               IN  logs' = logs \o << LogBlock(res) >>
            /\ errs' = errs
            /\ IF sink.t = "returns"
               THEN /\ pc' = "done"
                    /\ outcome' = Resolved([status |-> rsp.status, body |-> rsp.body])
               ELSE JSCatch(sink.error)
    /\ UNCHANGED << client, sink, library, other, method, url, data, baseUrl, processedQuery,
                    finalHeaders, attempt, sent, arg, ret >>

\* new HttpReq({clientType: 'axios', logger}) of HttpReq.js
InitJS ==
    /\ client = "axiosJS"
    /\ sink = ReturnsNormally
    /\ library = Loads
    /\ other = NoOther
    /\ NoCall
    /\ NoClassify

NextJS ==
    \/ \E m \in Methods, u \in DispatchUrls, d \in DispatchData : JSCall(m, u, d)
    \/ \E error \in NetworkErrors : JSFail(error)
    \/ \E rsp \in Responses : JSRespond(rsp)

SpecJS == InitJS /\ [][NextJS]_vars

-----------------------------------------------------------------------------
(* Direct calls of HttpReq.isValidRetryErr *)

ClassifyStrings == {Str(c) : c \in validRetryErrs \cup {"ENOTFOUND", "EINVAL", "404", ""}}
ClassifyCodes == {Str(c) : c \in validRetryErrs \cup {"ENOTFOUND", ""}} \cup {JSNull, JSUndefined}
ClassifyMessages == {Str("ECONNRESET"), Str("boom"), JSUndefined}

\* what a caller may pass: a string, null, undefined, or an error-like object
ClassifyArgs ==
    ClassifyStrings \cup {JSNull, JSUndefined, ErrObject(<< >>)}
        \cup {CodeOnly(c) : c \in ClassifyCodes}
        \cup {MessageOnly(m) : m \in ClassifyMessages}
        \cup {CodeMessage(c, m) : c \in ClassifyCodes, m \in ClassifyMessages}

\* client.isValidRetryErr(error)
Classify ==
    /\ pc = "idle"
    /\ client \in TSClients
    /\ ret' = isValidRetryErr(client, arg)
    /\ pc' = "classified"
    /\ UNCHANGED << client, sink, library, other, method, url, data, baseUrl, processedQuery,
                    finalHeaders, attempt, sent, errs, rsps, logs, outcome, arg >>

InitClassify ==
    /\ client \in TSClients
    /\ sink = ReturnsNormally
    /\ library = Loads
    /\ other = NoOther
    /\ NoCall
    /\ arg \in ClassifyArgs
    /\ ret = Returned(FALSE)

NextClassify == Classify

SpecClassify == InitClassify /\ [][NextClassify]_vars

-----------------------------------------------------------------------------
(* Calls over a wide range of URLs and query objects *)

\* every text of at most n characters of QueryChars
Texts(n) == UNION {[1..len -> QueryChars] : len \in 0..n}

QueryUrls == {BaseText} \cup {BaseText \o << "?" >> \o q : q \in Texts(MaxQueryLen)}

QueryKeys == {<< "a" >>, << "b" >>}

QueryValues ==
    {JSNull, JSUndefined, JSString(<< >>), JSString(<< "b" >>), JSNumber(0),
     JSBoolean(FALSE), JSArray(<< >>), JSArray(<< JSString(<< "a" >>), JSNumber(1) >>),
     JSArray(<< JSString(<< >>) >>), JSArray(<< JSNull >>)}

QueryObjects ==
    {NoQuery, NullQuery}
        \cup {QueryObject(props) : props \in UNION {[keys -> QueryValues] : keys \in SUBSET QueryKeys}}

NextQuery ==
    /\ pc = "idle"
    /\ \E u \in QueryUrls, q \in QueryObjects :
           Call("GET", u, [headers |-> Undefined, body |-> Undefined, query |-> q])

SpecQuery == Init /\ [][NextQuery]_vars

-----------------------------------------------------------------------------
(* The log text: formatRsp and logRequest *)

\* the characters of each string the model formats
Chars(s) ==
    CASE s = "GET" -> << "G", "E", "T" >>
      [] s = "POST" -> << "P", "O", "S", "T" >>
      [] s = "PUT" -> << "P", "U", "T" >>
      [] s = "PATCH" -> << "P", "A", "T", "C", "H" >>
      [] s = "DELETE" -> << "D", "E", "L", "E", "T", "E" >>
      [] s = "Accept" -> << "A", "c", "c", "e", "p", "t" >>
      [] s = "application/json" -> << "a", "p", "p", "l", "i", "c", "a", "t", "i", "o", "n", "/", "j", "s", "o", "n" >>
      [] s = "text/html" -> << "t", "e", "x", "t", "/", "h", "t", "m", "l" >>
      [] s = "Authorization" -> << "A", "u", "t", "h", "o", "r", "i", "z", "a", "t", "i", "o", "n" >>
      [] s = "verification-token" -> << "v", "e", "r", "i", "f", "i", "c", "a", "t", "i", "o", "n", "-", "t", "o", "k", "e", "n" >>
      [] s = "X-Api-Key" -> << "X", "-", "A", "p", "i", "-", "K", "e", "y" >>
      [] s = "Bearer token" -> << "B", "e", "a", "r", "e", "r", " ", "t", "o", "k", "e", "n" >>
      [] s = "Bearer s3cret" -> << "B", "e", "a", "r", "e", "r", " ", "s", "3", "c", "r", "e", "t" >>
      [] s = "Basic s3cret" -> << "B", "a", "s", "i", "c", " ", "s", "3", "c", "r", "e", "t" >>
      [] s = "Token s3cret" -> << "T", "o", "k", "e", "n", " ", "s", "3", "c", "r", "e", "t" >>
      [] s = "s3cret" -> << "s", "3", "c", "r", "e", "t" >>
      [] s = "v3rify" -> << "v", "3", "r", "i", "f", "y" >>
      [] s = "k3y" -> << "k", "3", "y" >>
      [] s = "acc3ss" -> << "a", "c", "c", "3", "s", "s" >>
      [] s = "name" -> << "n", "a", "m", "e" >>
      [] s = "n" -> << "n" >>
      [] s = "secret" -> << "s", "e", "c", "r", "e", "t" >>
      [] s = "username" -> << "u", "s", "e", "r", "n", "a", "m", "e" >>
      [] s = "u1" -> << "u", "1" >>
      [] s = "password" -> << "p", "a", "s", "s", "w", "o", "r", "d" >>
      [] s = "p4ss" -> << "p", "4", "s", "s" >>
      [] s = "" -> <<  >>
      [] s = "access_key" -> << "a", "c", "c", "e", "s", "s", "_", "k", "e", "y" >>
      [] s = "ok" -> << "o", "k" >>
      [] s = "not found" -> << "n", "o", "t", " ", "f", "o", "u", "n", "d" >>
      [] s = "server error" -> << "s", "e", "r", "v", "e", "r", " ", "e", "r", "r", "o", "r" >>
      [] s = "network connect timeout" -> << "n", "e", "t", "w", "o", "r", "k", " ", "c", "o", "n", "n", "e", "c", "t", " ", "t", "i", "m", "e", "o", "u", "t" >>
      [] s = "PASSWORD HIDDEN" -> << "P", "A", "S", "S", "W", "O", "R", "D", " ", "H", "I", "D", "D", "E", "N" >>
      [] s = "ACCESS KEY HIDDEN" -> << "A", "C", "C", "E", "S", "S", " ", "K", "E", "Y", " ", "H", "I", "D", "D", "E", "N" >>
      [] s = "TOKEN HIDDEN" -> << "T", "O", "K", "E", "N", " ", "H", "I", "D", "D", "E", "N" >>
      [] s = "Authorization: Basic TOKEN HIDDEN" -> << "A", "u", "t", "h", "o", "r", "i", "z", "a", "t", "i", "o", "n", ":", " ", "B", "a", "s", "i", "c", " ", "T", "O", "K", "E", "N", " ", "H", "I", "D", "D", "E", "N" >>
      [] s = "Authorization: Bearer TOKEN HIDDEN" -> << "A", "u", "t", "h", "o", "r", "i", "z", "a", "t", "i", "o", "n", ":", " ", "B", "e", "a", "r", "e", "r", " ", "T", "O", "K", "E", "N", " ", "H", "I", "D", "D", "E", "N" >>
      [] s = "Authorization: TOKEN HIDDEN" -> << "A", "u", "t", "h", "o", "r", "i", "z", "a", "t", "i", "o", "n", ":", " ", "T", "O", "K", "E", "N", " ", "H", "I", "D", "D", "E", "N" >>
      [] s = "verification-token: TOKEN HIDDEN" -> << "v", "e", "r", "i", "f", "i", "c", "a", "t", "i", "o", "n", "-", "t", "o", "k", "e", "n", ":", " ", "T", "O", "K", "E", "N", " ", "H", "I", "D", "D", "E", "N" >>
      [] s = "authorization:" -> << "a", "u", "t", "h", "o", "r", "i", "z", "a", "t", "i", "o", "n", ":" >>
      [] s = "basic" -> << "b", "a", "s", "i", "c" >>
      [] s = "bearer" -> << "b", "e", "a", "r", "e", "r" >>
      [] s = "verification-token:" -> << "v", "e", "r", "i", "f", "i", "c", "a", "t", "i", "o", "n", "-", "t", "o", "k", "e", "n", ":" >>
      [] s = "RESPONSE: " -> << "R", "E", "S", "P", "O", "N", "S", "E", ":", " " >>
      [] s = "::: " -> << ":", ":", ":", " " >>
      [] s = " :::" -> << " ", ":", ":", ":" >>
      [] s = "::: Response Time: " -> << ":", ":", ":", " ", "R", "e", "s", "p", "o", "n", "s", "e", " ", "T", "i", "m", "e", ":", " " >>
      [] s = "ms :::" -> << "m", "s", " ", ":", ":", ":" >>
      [] s = "2026-11-03T12:00:00.000Z" -> << "2", "0", "2", "6", "-", "1", "1", "-", "0", "3", "T", "1", "2", ":", "0", "0", ":", "0", "0", ".", "0", "0", "0", "Z" >>
      [] s = "{}" -> << "{", "}" >>
      [] s = "    " -> << " ", " ", " ", " " >>
      [] s = ": " -> << ":", " " >>
      [] s = "axios" -> << "a", "x", "i", "o", "s" >>
      [] s = "superagent" -> << "s", "u", "p", "e", "r", "a", "g", "e", "n", "t" >>
      [] s = " is required but not found. Please install it with: npm install " -> << " ", "i", "s", " ", "r", "e", "q", "u", "i", "r", "e", "d", " ", "b", "u", "t", " ", "n", "o", "t", " ", "f", "o", "u", "n", "d", ".", " ", "P", "l", "e", "a", "s", "e", " ", "i", "n", "s", "t", "a", "l", "l", " ", "i", "t", " ", "w", "i", "t", "h", ":", " ", "n", "p", "m", " ", "i", "n", "s", "t", "a", "l", "l", " " >>
      [] s = "Original error: " -> << "O", "r", "i", "g", "i", "n", "a", "l", " ", "e", "r", "r", "o", "r", ":", " " >>
      [] s = "npm install " -> << "n", "p", "m", " ", "i", "n", "s", "t", "a", "l", "l", " " >>
      [] s = "Cannot find module 'axios'" -> << "C", "a", "n", "n", "o", "t", " ", "f", "i", "n", "d", " ", "m", "o", "d", "u", "l", "e", " ", "'", "a", "x", "i", "o", "s", "'" >>
      [] s = "Cannot find module 'superagent'" -> << "C", "a", "n", "n", "o", "t", " ", "f", "i", "n", "d", " ", "m", "o", "d", "u", "l", "e", " ", "'", "s", "u", "p", "e", "r", "a", "g", "e", "n", "t", "'" >>
      [] s = "Unexpected token" -> << "U", "n", "e", "x", "p", "e", "c", "t", "e", "d", " ", "t", "o", "k", "e", "n" >>
      [] s = "Basic" -> << "B", "a", "s", "i", "c" >>
      [] s = "Bearer" -> << "B", "e", "a", "r", "e", "r" >>
      [] s = "Authorization: " -> << "A", "u", "t", "h", "o", "r", "i", "z", "a", "t", "i", "o", "n", ":", " " >>
      [] s = " TOKEN HIDDEN" -> << " ", "T", "O", "K", "E", "N", " ", "H", "I", "D", "D", "E", "N" >>

\* String.prototype.toLowerCase for one character, as the i flag compares
Lower(ch) ==
    CASE ch = "A" -> "a" [] ch = "B" -> "b" [] ch = "C" -> "c" [] ch = "D" -> "d"
    [] ch = "E" -> "e" [] ch = "F" -> "f" [] ch = "G" -> "g" [] ch = "H" -> "h"
    [] ch = "I" -> "i" [] ch = "J" -> "j" [] ch = "K" -> "k" [] ch = "L" -> "l"
    [] ch = "M" -> "m" [] ch = "N" -> "n" [] ch = "O" -> "o" [] ch = "P" -> "p"
    [] ch = "Q" -> "q" [] ch = "R" -> "r" [] ch = "S" -> "s" [] ch = "T" -> "t"
    [] ch = "U" -> "u" [] ch = "V" -> "v" [] ch = "W" -> "w" [] ch = "X" -> "x"
    [] ch = "Y" -> "y" [] ch = "Z" -> "z"
    [] OTHER -> ch

NL == "\n"

\* the order in which the objects of the model list their properties
FieldOrder == << "Accept", "Authorization", "verification-token", "X-Api-Key",
                 "username", "name", "password", "access_key" >>

\* Object.keys of an object of the model
Keys(props) == SelectSeq(FieldOrder, LAMBDA k : k \in DOMAIN props)

RECURSIVE JoinWith(_, _)
\* Array.prototype.join(sep) for a separator text
JoinWith(parts, sep) ==
    IF parts = << >> THEN << >>
    ELSE IF Len(parts) = 1 THEN parts[1]
         ELSE parts[1] \o sep \o JoinWith(Tail(parts), sep)

\* the JSON escape of one character
Escaped(ch) ==
    CASE ch = "\"" -> << "\\", "\"" >>
      [] ch = "\\" -> << "\\", "\\" >>
      [] ch = NL -> << "\\", "n" >>
      [] OTHER -> << ch >>

\* JSON.stringify of a string
StringifyString(s) ==
    << "\"" >> \o JoinWith([i \in 1..Len(s) |-> Escaped(s[i])], << >>) \o << "\"" >>

\* JSON.stringify(obj, null, 4) of an object whose values are strings
StringifyObject(props) ==
    LET keys == Keys(props)
        member(k) == Chars("    ") \o StringifyString(Chars(k)) \o Chars(": ")
                         \o StringifyString(Chars(props[k]))
    IN  IF keys = << >> THEN Chars("{}")
        ELSE << "{", NL >> \o JoinWith([i \in 1..Len(keys) |-> member(keys[i])], << ",", NL >>)
                 \o << NL, "}" >>

\* whether pat occurs in s at position i
OccursAt(s, i, pat) ==
    /\ i + Len(pat) - 1 <= Len(s)
    /\ \A j \in 1..Len(pat) : s[i + j - 1] = pat[j]

\* whether the lower-case pat occurs in s at position i, ignoring case
OccursAtIgnoringCase(s, i, pat) ==
    /\ i + Len(pat) - 1 <= Len(s)
    /\ \A j \in 1..Len(pat) : Lower(s[i + j - 1]) = pat[j]

\* the characters \s matches
IsSpace(ch) == ch \in {" ", NL, "\t"}

\* the least of a set of positions, 0 when there is none
FirstPosition(positions) ==
    IF positions = {} THEN 0
    ELSE CHOOSE j \in positions : \A k \in positions : j <= k

\* \s* from position i: the position after the white space
AfterSpaces(s, i) ==
    LET j == FirstPosition({k \in i..Len(s) : ~IsSpace(s[k])})
    IN  IF j = 0 THEN Len(s) + 1 ELSE j

\* .* from position i: the position after the rest of the line
AfterLine(s, i) ==
    LET j == FirstPosition({k \in i..Len(s) : s[k] = NL})
    IN  IF j = 0 THEN Len(s) + 1 ELSE j

\* /({\n)|(")|(,)|(\n})/ at position i: the position after the match, 0 when
\* there is none
BracesQuotesCommasMatch(s, i) ==
    IF OccursAt(s, i, << "{", NL >>) \/ OccursAt(s, i, << NL, "}" >>) THEN i + 2
    ELSE IF s[i] \in {"\"", ","} THEN i + 1
    ELSE 0

RECURSIVE StripBracesQuotesCommas(_, _)
\* headers.replace(/({\n)|(")|(,)|(\n})/g, '') from position i
StripBracesQuotesCommas(s, i) ==
    LET j == FirstPosition({k \in i..Len(s) : BracesQuotesCommasMatch(s, k) # 0})
    IN  IF j = 0 THEN SubSeq(s, i, Len(s))
        ELSE SubSeq(s, i, j - 1) \o StripBracesQuotesCommas(s, BracesQuotesCommasMatch(s, j))

\* /Authorization:\s*<scheme>.*/gi at position i: the position after the
\* match, 0 when there is none
AuthTokenMatch(s, i, scheme) ==
    IF OccursAtIgnoringCase(s, i, Chars("authorization:"))
    THEN LET j == AfterSpaces(s, i + Len(Chars("authorization:")))
         IN  IF OccursAtIgnoringCase(s, j, scheme) THEN AfterLine(s, j + Len(scheme)) ELSE 0
    ELSE 0

RECURSIVE ReplaceAuthToken(_, _, _, _)
\* headers.replace(/Authorization:\s*<scheme>.*/gi, replacement) from position i
ReplaceAuthToken(s, i, scheme, replacement) ==
    LET j == FirstPosition({k \in i..Len(s) : AuthTokenMatch(s, k, scheme) # 0})
    IN  IF j = 0 THEN SubSeq(s, i, Len(s))
        ELSE SubSeq(s, i, j - 1) \o replacement
                 \o ReplaceAuthToken(s, AuthTokenMatch(s, j, scheme), scheme, replacement)

\* /verification-token:\s.*/gi at position i: the position after the match, 0
\* when there is none
VerificationTokenMatch(s, i) ==
    LET j == i + Len(Chars("verification-token:"))
    IN  IF OccursAtIgnoringCase(s, i, Chars("verification-token:")) /\ j <= Len(s) /\ IsSpace(s[j])
        THEN AfterLine(s, j + 1)
        ELSE 0

RECURSIVE ReplaceVerificationToken(_, _)
\* headers.replace(/verification-token:\s.*/gi, 'verification-token: TOKEN HIDDEN')
ReplaceVerificationToken(s, i) ==
    LET j == FirstPosition({k \in i..Len(s) : VerificationTokenMatch(s, k) # 0})
    IN  IF j = 0 THEN SubSeq(s, i, Len(s))
        ELSE SubSeq(s, i, j - 1) \o Chars("verification-token: TOKEN HIDDEN")
                 \o ReplaceVerificationToken(s, VerificationTokenMatch(s, j))

RECURSIVE ReplaceEscapedNewlines(_, _)
\* .replace(/\\n/g, '\n') from position i
ReplaceEscapedNewlines(s, i) ==
    LET j == FirstPosition({k \in i..Len(s) : OccursAt(s, k, << "\\", "n" >>)})
    IN  IF j = 0 THEN SubSeq(s, i, Len(s))
        ELSE SubSeq(s, i, j - 1) \o << NL >> \o ReplaceEscapedNewlines(s, j + 2)

\* the replacements of the Authorization lines: HttpReq.ts keeps the scheme of
\* Basic and Bearer; SuperagentAdapter.ts and HttpReq.js replace whatever
\* follows the header name
RedactAuthorization(headers) ==
    IF client \in TSClients
    THEN LET basic == ReplaceAuthToken(headers, 1, Chars("basic"),
                                       Chars("Authorization: Basic TOKEN HIDDEN"))
         IN  ReplaceAuthToken(basic, 1, Chars("bearer"),
                              Chars("Authorization: Bearer TOKEN HIDDEN"))
    ELSE ReplaceAuthToken(headers, 1, << >>, Chars("Authorization: TOKEN HIDDEN"))

\* the headers block of formatRsp
HeadersBlock(header) ==
    ReplaceVerificationToken(
        RedactAuthorization(StripBracesQuotesCommas(StringifyObject(header), 1)), 1)

\* obfuscate(res.request._data) as formatRsp writes it into the log
ObfuscatedData(body) == StringifyObject(obfuscate(body.props))

formatRsp(res) ==
    LET first == Chars(res.request.method) \o << " " >> \o res.request.url \o << NL >>
                     \o HeadersBlock(res.request.header)
    IN  [req |-> IF res.request._data.t = "object"
                 THEN ReplaceEscapedNewlines(first \o << NL >> \o ObfuscatedData(res.request._data), 1)
                 ELSE first,
         rsp |-> Chars("RESPONSE: ") \o NumberText(res.status) \o << NL >>
                     \o StringifyString(Chars(res.body))]

\* logRequest with the elapsed milliseconds its clock readings give
logRequest(reqObj, startDate, msec) ==
    JoinWith(<< Chars("::: ") \o startDate \o Chars(" :::"),
                reqObj.req,
                reqObj.rsp,
                Chars("::: Response Time: ") \o NumberText(msec) \o Chars("ms :::") >>,
             << NL >>) \o << NL >>

\* startDate.toISOString() of the calls of the model
StartDate == Chars("2026-11-03T12:00:00.000Z")

\* elapsed times the clock may give
Elapsed == {0, 12}

\* header objects that reach formatRsp
AuthorizationValues == {"Bearer s3cret", "Basic s3cret", "Token s3cret", "s3cret"}
FormatHeaders ==
    {h \in UNION {[names -> AuthorizationValues \cup {"v3rify", "k3y"}] :
                     names \in SUBSET {"Authorization", "verification-token", "X-Api-Key"}} :
        /\ "Authorization" \in DOMAIN h => h["Authorization"] \in AuthorizationValues
        /\ "verification-token" \in DOMAIN h => h["verification-token"] = "v3rify"
        /\ "X-Api-Key" \in DOMAIN h => h["X-Api-Key"] = "k3y"}

\* request bodies that reach formatRsp
FormatBodies ==
    {Undefined,
     Obj([f \in {"username"} |-> "u1"]),
     Obj([f \in {"username", "password"} |-> IF f = "username" THEN "u1" ELSE "p4ss"]),
     Obj([f \in {"username", "password"} |-> IF f = "username" THEN "u1" ELSE ""]),
     Obj([f \in {"username", "password", "access_key"} |->
             IF f = "username" THEN "u1" ELSE IF f = "password" THEN "p4ss" ELSE "acc3ss"])}

\* send after the transport answered with a status below 600
Responded ==
    /\ pc = "responded"
    /\ method \in {"GET", "POST"}
    /\ url = BaseText
    /\ \E h \in FormatHeaders :
           finalHeaders = FinalHeaders(method, Obj(h))
    /\ \E b \in FormatBodies :
           data = [headers |-> Undefined, body |-> b, query |-> NoQuery]
    /\ baseUrl = BaseText
    /\ processedQuery = EmptyObject
    /\ attempt = 0
    /\ sent = << Request(method, baseUrl, finalHeaders, data.body, processedQuery) >>
    /\ errs = << >>
    /\ rsps \in {<< rsp >> : rsp \in Responses}
    /\ logs = << >>
    /\ outcome = Pending

\* const formattedRsp = logRequest(formatRsp(formattedResponse), startDate);
\* this.logger(formattedRsp); return formattedResponse;
Log(msec) ==
    /\ pc = "responded"
    /\ LET res == FormattedResponse(rsps[1], method, url, finalHeaders, data.body)
           body == IF client \in TSClients THEN BodyAfterFormat(data.body) ELSE data.body
       IN  /\ logs' = Append(logs, logRequest(formatRsp(res), StartDate, msec))
           /\ data' = [data EXCEPT !.body = body]
           /\ outcome' = Resolved(FormattedResponse(rsps[1], method, url, finalHeaders, body))
    /\ pc' = "done"
    /\ UNCHANGED << client, sink, library, other, method, url, baseUrl, processedQuery,
                    finalHeaders, attempt, sent, errs, rsps, arg, ret >>

InitFormat ==
    /\ client \in TSClients
    /\ sink = ReturnsNormally
    /\ library = Loads
    /\ other = NoOther
    /\ Responded
    /\ NoClassify

NextFormat == \E msec \in Elapsed : Log(msec)

SpecFormat == InitFormat /\ [][NextFormat]_vars

\* logRequest(formatRsp(res), startDate) once more, on the formattedResponse
\* that send has formatted and returned
FormatAgain(msec) ==
    /\ pc = "done"
    /\ Len(logs) = 1
    /\ LET res == outcome.value
           body == IF client \in TSClients THEN BodyAfterFormat(data.body) ELSE data.body
       IN  /\ logs' = Append(logs, logRequest(formatRsp(res), StartDate, msec))
           /\ data' = [data EXCEPT !.body = body]
           /\ outcome' = Resolved([res EXCEPT !.request._data = body])
    /\ pc' = "formattedAgain"
    /\ UNCHANGED << client, sink, library, other, method, url, baseUrl, processedQuery,
                    finalHeaders, attempt, sent, errs, rsps, arg, ret >>

NextFormatTwice ==
    \/ \E msec \in Elapsed : Log(msec)
    \/ \E msec \in Elapsed : FormatAgain(msec)

SpecFormatTwice == InitFormat /\ [][NextFormatTwice]_vars

\* new SuperagentAdapter(logger) of SuperagentAdapter.ts, after a response
InitFormatAdapter ==
    /\ client = "superagentAdapter"
    /\ sink = ReturnsNormally
    /\ library = Loads
    /\ other = NoOther
    /\ Responded
    /\ NoClassify

SpecFormatAdapter == InitFormatAdapter /\ [][NextFormat]_vars

-----------------------------------------------------------------------------
(* Loading the backing library: import, construction and first call *)

\* a text, as a value that is never compared with the plain strings
Text(chars) == [t |-> "text", v |-> chars]

\* the package the selected transport is backed by
LibraryOf(c) == IF c = "axios" THEN "axios" ELSE "superagent"

\* what require(lib) throws when the package cannot be loaded
LoadErrors(lib) ==
    {CodeMessage(Str("MODULE_NOT_FOUND"),
                 Text(Chars(IF lib = "axios" THEN "Cannot find module 'axios'"
                                             ELSE "Cannot find module 'superagent'"))),
     MessageOnly(Text(Chars("Unexpected token")))}

\* new Error(`${lib} is required but not found. Please install it with:
\* npm install ${lib}\nOriginal error: ${typedError.message}`)
DependencyError(lib, error) ==
    MessageOnly(Text(Chars(lib)
                     \o Chars(" is required but not found. Please install it with: npm install ")
                     \o Chars(lib) \o << NL >> \o Chars("Original error: ")
                     \o Prop(error, "message").v))

\* a synchronous throw, as opposed to a rejected promise
Thrown(error) == [kind |-> "thrown", error |-> error]

\* the module is loaded: HttpReq.ts requires axios when it is imported, and
\* superagent only for its types; SuperagentAdapter.ts requires nothing yet
Import ==
    /\ pc = "unloaded"
    /\ IF client = "axios" /\ library.t = "missing"
       THEN /\ pc' = "importFailed"
            /\ outcome' = Thrown(library.error)
       ELSE /\ pc' = "imported"
            /\ UNCHANGED outcome
    /\ UNCHANGED << client, sink, library, other, method, url, data, baseUrl, processedQuery,
                    finalHeaders, attempt, sent, errs, rsps, logs, arg, ret >>

\* new HttpReq({clientType, logger}) of HttpReq.ts loads nothing;
\* new SuperagentAdapter(logger) requires superagent in its constructor
Construct ==
    /\ pc = "imported"
    /\ IF client = "superagentAdapter" /\ library.t = "missing"
       THEN /\ pc' = "constructFailed"
            /\ outcome' = Thrown(DependencyError("superagent", library.error))
       ELSE /\ pc' = "idle"
            /\ UNCHANGED outcome
    /\ UNCHANGED << client, sink, library, other, method, url, data, baseUrl, processedQuery,
                    finalHeaders, attempt, sent, errs, rsps, logs, arg, ret >>

\* GET/POST/PUT/PATCH/DELETE(url, data) on an instance whose library does not
\* load: getRequest() throws out of the method of the superagent client,
\* getAxios() throws inside the async send of the axios client
CallWithoutLibrary(m, u, d) ==
    /\ pc = "idle"
    /\ client \in TSClients
    /\ library # Loads
    /\ method' = m
    /\ url' = u
    /\ data' = d
    /\ pc' = "failed"
    /\ outcome' = IF client = "superagent"
                  THEN Thrown(DependencyError("superagent", library.error))
                  ELSE Rejected(DependencyError("axios", library.error))
    /\ UNCHANGED << client, sink, library, other, baseUrl, processedQuery, finalHeaders,
                    attempt, sent, errs, rsps, logs, arg, ret >>

\* a program that is about to import the module, with the selected
\* transport's library loading or not
InitLoad ==
    /\ client \in TSClients \cup {"superagentAdapter"}
    /\ sink = ReturnsNormally
    /\ library \in {Loads} \cup {Missing(e) : e \in LoadErrors(LibraryOf(client))}
                          \cup {CreateFails(e) : e \in {x \in LoadErrors("axios") : client = "axios"}}
    /\ other = NoOther
    /\ pc = "unloaded"
    /\ method = "GET"
    /\ url = BaseText
    /\ data = [headers |-> Undefined, body |-> Undefined, query |-> NoQuery]
    /\ baseUrl = BaseText
    /\ processedQuery = EmptyObject
    /\ finalHeaders = << >>
    /\ attempt = 0
    /\ sent = << >>
    /\ errs = << >>
    /\ rsps = << >>
    /\ logs = << >>
    /\ outcome = Pending
    /\ NoClassify

NextLoad ==
    \/ Import
    \/ Construct
    \/ \E m \in Methods, u \in DispatchUrls, d \in DispatchData : CallWithoutLibrary(m, u, d)
    \/ Next

SpecLoad == InitLoad /\ [][NextLoad]_vars

-----------------------------------------------------------------------------
(* Two calls in flight *)

\* instance and locals of the call whose continuation is running
Locals ==
    [client |-> client, pc |-> pc, method |-> method, url |-> url, data |-> data,
     baseUrl |-> baseUrl, processedQuery |-> processedQuery,
     finalHeaders |-> finalHeaders, attempt |-> attempt, sent |-> sent,
     errs |-> errs, rsps |-> rsps, logs |-> logs, outcome |-> outcome]

\* an instance of client c on which no method was called yet
NotCalled(c) ==
    [client |-> c, pc |-> "idle", method |-> "GET", url |-> BaseText,
     data |-> [headers |-> Undefined, body |-> Undefined, query |-> NoQuery],
     baseUrl |-> BaseText, processedQuery |-> EmptyObject, finalHeaders |-> << >>,
     attempt |-> 0, sent |-> << >>, errs |-> << >>, rsps |-> << >>, logs |-> << >>,
     outcome |-> Pending]

\* a second call; sameBody tells whether the program passes one body object
\* to both calls
OtherCall(sameBody, locals) == [t |-> "call", sameBody |-> sameBody, locals |-> locals]

\* the event loop resumes the other call at its await: its locals come back,
\* and a body object that both calls hold has the content it has now
Switch ==
    /\ other # NoOther
    /\ other' = [other EXCEPT !.locals = Locals]
    /\ client' = other.locals.client
    /\ pc' = other.locals.pc
    /\ method' = other.locals.method
    /\ url' = other.locals.url
    /\ data' = IF other.sameBody /\ other.locals.pc # "idle" /\ pc # "idle"
               THEN [other.locals.data EXCEPT !.body = data.body]
               ELSE other.locals.data
    /\ baseUrl' = other.locals.baseUrl
    /\ processedQuery' = other.locals.processedQuery
    /\ finalHeaders' = other.locals.finalHeaders
    /\ attempt' = other.locals.attempt
    /\ sent' = other.locals.sent
    /\ errs' = other.locals.errs
    /\ rsps' = other.locals.rsps
    /\ logs' = other.locals.logs
    /\ outcome' = other.locals.outcome
    /\ UNCHANGED << sink, library, arg, ret >>

\* the data object of a call: with the program's one body object when the
\* other call was given it already
WithBodyOfProgram(d) ==
    IF other.sameBody /\ other.locals.pc # "idle"
    THEN [d EXCEPT !.body = other.locals.data.body]
    ELSE d

ConcurrentMethods == {"GET", "POST"}
ConcurrentData == {d \in DispatchData : d.headers # Undefined}
ConcurrentErrors == {CodeMessage(Str("ECONNRESET"), Str("network failure")),
                     CodeMessage(Str("ENOTFOUND"), Str("getaddrinfo ENOTFOUND"))}
ConcurrentResponses == {rsp \in Responses : rsp.status = 200}

\* two instances of HttpReq.ts, of the same or of different clients, each
\* about to serve one call
InitConcurrent ==
    /\ client \in TSClients
    /\ sink = ReturnsNormally
    /\ library = Loads
    /\ other \in {OtherCall(sameBody, NotCalled(c)) : sameBody \in BOOLEAN, c \in TSClients}
    /\ NoCall
    /\ NoClassify

NextConcurrent ==
    \/ \E m \in ConcurrentMethods, d \in ConcurrentData : Call(m, BaseText, WithBodyOfProgram(d))
    \/ \E error \in ConcurrentErrors : Fail(error)
    \/ \E rsp \in ConcurrentResponses : Respond(rsp)
    \/ Switch

SpecConcurrent == InitConcurrent /\ [][NextConcurrent]_vars

-----------------------------------------------------------------------------
(* The same call on both clients, against one script of transport outcomes *)

\* one outcome of a transport invocation: it rejects with error, or it
\* resolves with rsp
Rejects(error) == [error |-> error]
Answers(rsp) == [rsp |-> rsp]

\* error objects of every shape of code and message
TwinErrors ==
    {CodeMessage(Str("ECONNRESET"), Str("network failure")),
     CodeMessage(Str("ENOTFOUND"), Str("getaddrinfo ENOTFOUND")),
     CodeMessage(Str(""), Str("ECONNRESET")),
     CodeMessage(JSNull, Str("ETIMEDOUT")),
     MessageOnly(Str("ETIMEDOUT")),
     ErrObject(<< >>)}

\* what the transport does at the first, second, third and fourth invocation
\* of a call
Scripts ==
    [1..(LastAttempt + 1) ->
        {Rejects(error) : error \in TwinErrors} \cup {Answers(rsp) : rsp \in ConcurrentResponses}]

\* the second instance, of the other client, whose transport follows the
\* same script
Twin(script, locals) ==
    [t |-> "twin", sameBody |-> FALSE, script |-> script, locals |-> locals]

\* the outcome the script holds for the attempt in flight
Scripted == other.script[Len(sent)]

\* the request of the twin is the request the other instance was called with
SameRequest(m, u, d) ==
    \/ other.locals.pc = "idle"
    \/ /\ m = other.locals.method
       /\ u = other.locals.url
       /\ d.headers = other.locals.data.headers
       /\ d.query = other.locals.data.query
       /\ d.body = other.locals.sent[1].data

InitTwin ==
    /\ client = "axios"
    /\ sink = ReturnsNormally
    /\ library = Loads
    /\ other \in {Twin(script, NotCalled("superagent")) : script \in Scripts}
    /\ NoCall
    /\ NoClassify

NextTwin ==
    \/ \E m \in ConcurrentMethods, d \in ConcurrentData :
           SameRequest(m, BaseText, d) /\ Call(m, BaseText, d)
    \/ \E error \in TwinErrors : pc = "attempt" /\ Scripted = Rejects(error) /\ Fail(error)
    \/ \E rsp \in ConcurrentResponses : pc = "attempt" /\ Scripted = Answers(rsp) /\ Respond(rsp)
    \/ Switch

SpecTwin == InitTwin /\ [][NextTwin]_vars

-----------------------------------------------------------------------------
(* The per-attempt timeout *)

\* what the transport rejects with when its timer ends the attempt
TimeoutError == CodeMessage(Str("ECONNABORTED"), Str("timeout of 70000ms exceeded"))

\* the timer of the attempt in flight fires.  The clients of HttpReq.ts give
\* their transport a timeout: axios.create({timeout}) and
\* .timeout(HTTP_REQUEST.TIMEOUT); the AxiosAdapter of HttpReq.js uses the
\* axios module as it is, with no timeout in its config
Timeout ==
    /\ client \in TSClients
    /\ Fail(TimeoutError)

\* an instance of either file
InitLive ==
    /\ client \in TSClients \cup {"axiosJS"}
    /\ sink = ReturnsNormally
    /\ library = Loads
    /\ other = NoOther
    /\ NoCall
    /\ NoClassify

\* the server may answer, the connection may fail, or nothing may happen
\* until the timer fires
NextLive ==
    \/ \E m \in Methods, u \in DispatchUrls, d \in DispatchData : Call(m, u, d)
    \/ \E m \in Methods, u \in DispatchUrls, d \in DispatchData : JSCall(m, u, d)
    \/ \E error \in NetworkErrors \ {TimeoutError} : Fail(error)
    \/ \E error \in NetworkErrors : JSFail(error)
    \/ \E rsp \in Responses : Respond(rsp)
    \/ \E rsp \in Responses : JSRespond(rsp)
    \/ Timeout

\* a timer that was set fires; a server is not bound to answer
SpecLive == InitLive /\ [][NextLive]_vars /\ WF_vars(Timeout)

-----------------------------------------------------------------------------
(* Logger sinks that throw *)

\* what a sink throws: an error of its own, or a network error of the place
\* it writes to
SinkErrors == {CodeMessage(Str("ETIMEDOUT"), Str("network failure")),
               MessageOnly(Str("ECONNRESET")),
               MessageOnly(Str("disk full"))}

\* new HttpReq({clientType, logger}) of HttpReq.ts with any logger
InitSink ==
    /\ client \in TSClients
    /\ sink \in {ReturnsNormally} \cup {Throwing(e) : e \in SinkErrors}
    /\ library = Loads
    /\ other = NoOther
    /\ NoCall
    /\ NoClassify

SpecSink == InitSink /\ [][Next]_vars

-----------------------------------------------------------------------------
(* Properties *)

Last(seq) == seq[Len(seq)]

\* an error of the retry whitelist: judged by its code, else by its message
WhitelistedError(e) ==
    IF Prop(e, "code").t = "string" THEN Prop(e, "code").v \in validRetryErrs
    ELSE Prop(e, "message").t = "string" /\ Prop(e, "message").v \in validRetryErrs

\* every failure of the transport in this call so far was a whitelisted error
OnlyWhitelisted == \A i \in 1..Len(errs) : WhitelistedError(errs[i])

\* C1: after k <= 3 whitelisted failures the call has not given up and has
\* made exactly k+1 transport invocations; once the transport then returns a
\* response the call is resolved with that response, still after k+1
\* invocations.
C1_RetryThenSucceed ==
    (pc # "idle" /\ OnlyWhitelisted /\ Len(errs) <= 3) =>
        /\ pc # "failed"
        /\ Len(sent) = Len(errs) + 1
        /\ rsps # << >> =>
              /\ pc = "done"
              /\ Len(rsps) = 1
              /\ outcome.kind = "resolved"
              /\ outcome.value.status = rsps[1].status
              /\ outcome.value.body = rsps[1].body

C1_Witness ==
    /\ pc = "done"
    /\ Len(errs) = 3
    /\ OnlyWhitelisted
    /\ Len(sent) = 4
    /\ outcome.kind = "resolved"

\* C2: no call makes a fifth transport invocation, and a call that was
\* rejected after nothing but whitelisted failures made exactly four.
C2_ExhaustedAfterFour ==
    /\ Len(sent) <= 4
    /\ (pc = "failed" /\ OnlyWhitelisted /\ rsps = << >>) =>
           /\ Len(errs) = 4
           /\ Len(sent) = 4
           /\ outcome.kind = "rejected"

C2_Witness ==
    /\ pc = "failed"
    /\ OnlyWhitelisted
    /\ Len(errs) = 4
    /\ Len(sent) = 4

\* C3: once the transport has returned an HTTP status, the call is resolved
\* with a result of that status and that attempt was the last invocation: the
\* status is neither retried nor turned into a rejection.
C3_StatusIsSuccess ==
    rsps # << >> =>
        /\ Len(rsps) = 1
        /\ pc = "done"
        /\ outcome.kind = "resolved"
        /\ outcome.value.status = Last(rsps).status
        /\ Len(sent) = Len(errs) + 1

C3_Witness ==
    /\ pc = "done"
    /\ errs = << >>
    /\ Len(sent) = 1
    /\ Last(rsps).status = 500
    /\ outcome.value.status = 500

\* C4: an error outside the whitelist is the last error of its call: the call
\* is rejected with it and has made no invocation after the failed one.
C4_NonRetryableRejects ==
    \A i \in 1..Len(errs) :
        ~WhitelistedError(errs[i]) =>
            /\ i = Len(errs)
            /\ pc = "failed"
            /\ Len(sent) = i
            /\ outcome = Rejected(errs[i])

C4_Witness ==
    /\ pc = "failed"
    /\ Len(errs) = 1
    /\ errs[1] = CodeMessage(Str("ENOTFOUND"), Str("getaddrinfo ENOTFOUND"))
    /\ Len(sent) = 1

\* C5: a call that ended in failure was rejected with the error of its last
\* transport attempt, unmodified.
C5_LastErrorUnmodified ==
    (pc = "failed" /\ errs # << >>) => outcome = Rejected(Last(errs))

\* C6: a call that ended in success handed exactly one block to the sink.
C6_OneLogPerSuccess == pc = "done" => Len(logs) = 1

C6_Witness ==
    /\ pc = "done"
    /\ Len(errs) = 2
    /\ Len(sent) = 3
    /\ Len(logs) = 1

\* C7: a call that ended in failure handed nothing to the sink.
C7_NoLogOnFailure == pc = "failed" => logs = << >>

C7_Witness ==
    /\ pc = "failed"
    /\ Len(errs) = 4
    /\ OnlyWhitelisted
    /\ logs = << >>

-----------------------------------------------------------------------------
(* Properties of isValidRetryErr *)

\* the value an input is judged by: a string by itself, an object by its
\* code, else by its message; null and undefined carry nothing to judge
JudgedBy(x) ==
    IF x.t = "string" THEN x
    ELSE IF x.t \in {"null", "undefined"} THEN JSUndefined
    ELSE IF Prop(x, "code").t \notin {"null", "undefined"} THEN Prop(x, "code")
    ELSE Prop(x, "message")

\* an object with an empty code: whether "else by its message" applies to it
\* is left open, so either answer is accepted for it
EmptyCode(x) == x.t = "object" /\ Prop(x, "code") = Str("")

\* C8: isValidRetryErr returns, without throwing, true exactly when the value
\* the input is judged by is one of the five whitelisted codes.
C8_ClassifiesWithoutThrowing ==
    pc = "classified" =>
        /\ ~ret.threw
        /\ EmptyCode(arg) \/ ret.value = (JudgedBy(arg).t = "string" /\ JudgedBy(arg).v \in validRetryErrs)

-----------------------------------------------------------------------------
(* Properties of the query handed to the transport *)

RECURSIVE AfterFirst(_, _)
\* the text that follows the first occurrence of ch in s
AfterFirst(s, ch) ==
    IF s = << >> THEN << >>
    ELSE IF Head(s) = ch THEN Tail(s)
    ELSE AfterFirst(Tail(s), ch)

RECURSIVE BeforeFirst(_, _)
\* the text that precedes the first occurrence of ch in s
BeforeFirst(s, ch) ==
    IF s = << >> THEN << >>
    ELSE IF Head(s) = ch THEN << >>
    ELSE << Head(s) >> \o BeforeFirst(Tail(s), ch)

\* the key=value pairs written in the URL after its '?'
UrlPairs(u) ==
    LET pairs == Split(AfterFirst(u, "?"), "&")
    IN  {pairs[i] : i \in {j \in 1..Len(pairs) : pairs[j] # << >>}}

\* the values the URL gives to key
UrlValues(u, key) ==
    {AfterFirst(pair, "=") : pair \in {p \in UrlPairs(u) : BeforeFirst(p, "=") = key}}

UrlKeys(u) == {BeforeFirst(pair, "=") : pair \in UrlPairs(u)}

\* a query value that is not null, undefined or empty
Present(value) ==
    /\ value.t \notin {"null", "undefined"}
    /\ ~(value.t \in {"string", "array"} /\ value.v = << >>)

\* the query the transport was handed by the call in flight
HandedQuery == sent[1].params

\* C9: for a URL with an embedded query string and a query object whose values
\* are all present, every key of the object is handed to the transport with
\* the object's value, and every named key that only the URL has, with its one
\* non-empty value there, is handed over with that value.
C9_ObjectOverridesUrl ==
    (pc = "attempt" /\ UrlPairs(url) # {} /\ data.query.t = "object"
        /\ \A k \in DOMAIN data.query.props : Present(data.query.props[k])) =>
        /\ \A k \in DOMAIN data.query.props :
              k \in DOMAIN HandedQuery /\ HandedQuery[k] = StringOf(data.query.props[k])
        /\ \A k \in UrlKeys(url) \ DOMAIN data.query.props :
              \A v \in UrlValues(url, k) :
                  (k # << >> /\ UrlValues(url, k) = {v} /\ v # << >>) =>
                      k \in DOMAIN HandedQuery /\ HandedQuery[k] = v

\* the merged value of key: the query object's when it has the key, else the
\* value send parsed from the URL
MergedValue(key) == mergeQueryParameters(url, data.query).mergedQuery[key]

MergedKeys == DOMAIN mergeQueryParameters(url, data.query).mergedQuery

\* C10: a key whose merged value is null, undefined, the empty string or an
\* empty array is absent from the query handed to the transport.
C10_EmptyValuesDropped ==
    pc = "attempt" =>
        \A k \in MergedKeys : ~Present(MergedValue(k)) => k \notin DOMAIN HandedQuery

C10_Witness ==
    /\ pc = "attempt"
    /\ url = BaseText \o << "?", "a", "=", "1" >>
    /\ data.query.t = "object"
    /\ DOMAIN data.query.props = {<< "a" >>, << "b" >>}
    /\ data.query.props[<< "a" >>] = JSArray(<< >>)
    /\ data.query.props[<< "b" >>] = JSNumber(0)
    /\ DOMAIN HandedQuery = {<< "b" >>}

\* the default string form of a scalar
DefaultStringForm(x) ==
    CASE x.t = "string" -> x.v
      [] x.t = "boolean" /\ x.v -> << "t", "r", "u", "e" >>
      [] x.t = "boolean" /\ ~x.v -> << "f", "a", "l", "s", "e" >>
      [] x.t = "number" /\ x.v = 0 -> << "0" >>
      [] x.t = "number" /\ x.v # 0 -> NumberText(x.v)
      [] OTHER -> << >>

RECURSIVE JoinedByCommas(_)
\* the elements of a non-empty array, each in its string form, with ','
\* between neighbours; a null or undefined element contributes no text
JoinedByCommas(a) ==
    IF Len(a) = 1 THEN DefaultStringForm(a[1])
    ELSE DefaultStringForm(a[1]) \o << "," >> \o JoinedByCommas(Tail(a))

\* the serialized form the reference prescribes for a kept value
Prescribed(value) ==
    IF value.t = "array" THEN JoinedByCommas(value.v) ELSE DefaultStringForm(value)

\* C11: every key whose merged value is not null, undefined, '' or [] is
\* handed to the transport, 0 and false included, and its value there is the
\* comma-joined elements of an array and the default string form of any
\* other value.
C11_SerializedAsPrescribed ==
    pc = "attempt" =>
        \A k \in MergedKeys :
            Present(MergedValue(k)) =>
                /\ k \in DOMAIN HandedQuery
                /\ HandedQuery[k] = Prescribed(MergedValue(k))

C11_Witness ==
    /\ pc = "attempt"
    /\ data.query.t = "object"
    /\ DOMAIN data.query.props = {<< "a" >>, << "b" >>}
    /\ data.query.props[<< "a" >>] \in {JSNumber(0), JSBoolean(FALSE)}
    /\ data.query.props[<< "b" >>] = JSArray(<< JSString(<< "a" >>), JSNumber(1) >>)
    /\ HandedQuery[<< "a" >>] \in {<< "0" >>, << "f", "a", "l", "s", "e" >>}
    /\ HandedQuery[<< "b" >>] = << "a", ",", "1" >>

-----------------------------------------------------------------------------
(* Properties of the log text *)

\* whether pat occurs somewhere in text
Contains(text, pat) == \E i \in 1..Len(text) : OccursAt(text, i, pat)

\* the text the sink was handed by the call that ended
LogText == logs[1]

\* headers and body of the request that was logged, as they were sent
LoggedHeaders == sent[1].headers
LoggedBody == sent[1].data

\* the credential of an Authorization value: what follows the scheme token,
\* or the whole value when it names no scheme
Credential(value) ==
    LET words == Split(Chars(value), " ")
    IN  words[Len(words)]

\* the scheme token of an Authorization value, empty when it names none
Scheme(value) ==
    LET words == Split(Chars(value), " ")
    IN  IF Len(words) >= 2 THEN words[1] ELSE << >>

\* a field of the body that holds a secret
SensitiveFields == {"password", "access_key"}

\* the placeholder a sensitive body field is logged with
Placeholder(field) ==
    IF field = "password" THEN Chars("PASSWORD HIDDEN") ELSE Chars("ACCESS KEY HIDDEN")

\* C12: the log text of a request with an Authorization header, of whatever
\* scheme or of none, holds the token placeholder and not the credential; the
\* same for a verification-token header; and for every body field named
\* password or access_key that holds a value, it holds the field's
\* placeholder and not that value.
C12_RedactionComplete ==
    pc = "done" =>
        /\ "Authorization" \in DOMAIN LoggedHeaders =>
               /\ ~Contains(LogText, Credential(LoggedHeaders["Authorization"]))
               /\ Contains(LogText, Chars("TOKEN HIDDEN"))
        /\ "verification-token" \in DOMAIN LoggedHeaders =>
               /\ ~Contains(LogText, Chars(LoggedHeaders["verification-token"]))
               /\ Contains(LogText, Chars("TOKEN HIDDEN"))
        /\ LoggedBody.t = "object" =>
               \A f \in SensitiveFields \cap DOMAIN LoggedBody.props :
                   LoggedBody.props[f] # "" =>
                       /\ ~Contains(LogText, Chars(LoggedBody.props[f]))
                       /\ Contains(LogText, Placeholder(f))

\* C13: the log text of a request whose Authorization value uses the Basic or
\* the Bearer scheme holds 'Authorization: Basic TOKEN HIDDEN' or
\* 'Authorization: Bearer TOKEN HIDDEN' respectively, and not the credential.
C13_SchemeKept ==
    (pc = "done" /\ "Authorization" \in DOMAIN LoggedHeaders
        /\ Scheme(LoggedHeaders["Authorization"]) \in {Chars("Basic"), Chars("Bearer")}) =>
        /\ Contains(LogText, Chars("Authorization: ") \o Scheme(LoggedHeaders["Authorization"])
                                 \o Chars(" TOKEN HIDDEN"))
        /\ ~Contains(LogText, Credential(LoggedHeaders["Authorization"]))

\* a member of the logged body as JSON writes it
MemberText(field, value) ==
    StringifyString(Chars(field)) \o Chars(": ") \o StringifyString(value)

\* C14: the log text of a request with a body holds every top-level field
\* named password or access_key with its placeholder as value, and every
\* other field with its original value.
C14_BodyFieldsObfuscated ==
    (pc = "done" /\ LoggedBody.t = "object") =>
        \A f \in DOMAIN LoggedBody.props :
            IF f \in SensitiveFields
            THEN Contains(LogText, MemberText(f, Placeholder(f)))
            ELSE Contains(LogText, MemberText(f, Chars(LoggedBody.props[f])))

-----------------------------------------------------------------------------
(* Properties of the request sent and of the result returned *)

\* the headers object the caller passed, {} when there was none
CallerHeaders == data.headers.props

\* C15: the headers handed to the transport hold every header of the caller
\* with the caller's value; for a GET whose caller gave no Accept they also
\* hold Accept: application/json; and they hold nothing else.
C15_AcceptDefault ==
    pc # "idle" =>
        LET headers == sent[1].headers
        IN  /\ \A h \in DOMAIN CallerHeaders :
                   h \in DOMAIN headers /\ headers[h] = CallerHeaders[h]
            /\ (method = "GET" /\ "Accept" \notin DOMAIN CallerHeaders) =>
                   "Accept" \in DOMAIN headers /\ headers["Accept"] = "application/json"
            /\ DOMAIN headers \subseteq
                   DOMAIN CallerHeaders \cup (IF method = "GET" THEN {"Accept"} ELSE {})

\* C16: a call that ended in success resolved to the record of the status and
\* body of the last response, the method, the URL as the caller gave it, and
\* the headers and body of the last request handed to the transport.
C16_ResultRecord ==
    pc = "done" =>
        outcome = Resolved([status |-> Last(rsps).status,
                            body |-> Last(rsps).body,
                            request |-> [method |-> method,
                                         url |-> url,
                                         header |-> Last(sent).headers,
                                         _data |-> Last(sent).data]])

C20_CallerRequestNotMutated == [][pc = "attempt" => data' = data]_vars

-----------------------------------------------------------------------------
(* Properties of a backing library that does not load *)

\* an instance of the client or adapter exists
InstanceExists == pc \in {"idle", "attempt", "done", "failed"}

\* C17: while the backing library of the selected transport cannot be loaded
\* there is no instance: construction has not happened yet or it has failed,
\* so no method call can be the point of failure.
C17_FailsAtConstruction == library.t = "missing" => ~InstanceExists

\* the error that was raised because the library does not load
RaisedForLibrary ==
    /\ library # Loads
    /\ pc \in {"importFailed", "constructFailed", "failed"}

\* C18: the error raised because the backing library does not load holds, in
\* its message, the library's name, 'npm install <library>' and the message
\* of the underlying error.
C18_MessageNamesRemedy ==
    RaisedForLibrary =>
        LET message == Prop(outcome.error, "message").v
            lib == Chars(LibraryOf(client))
        IN  /\ Contains(message, lib)
            /\ Contains(message, Chars("npm install ") \o lib)
            /\ Contains(message, Prop(library.error, "message").v)

-----------------------------------------------------------------------------
(* Properties of two calls in flight *)

\* the call c made its attempts and reached its outcome as its own request
\* and its own transport outcomes say
OwnAttemptsAndOutcome(c) ==
    /\ Len(c.sent) <= 4
    /\ c.pc # "idle" =>
           /\ \A i \in 1..Len(c.sent) : c.sent[i] = c.sent[1]
           /\ Len(c.sent) = Len(c.errs) + (IF c.pc = "failed" THEN 0 ELSE 1)
           /\ c.pc = "done" <=> c.rsps # << >>
           /\ c.pc = "failed" <=>
                  /\ c.errs # << >>
                  /\ ~WhitelistedError(Last(c.errs)) \/ Len(c.errs) = 4
           /\ c.pc = "done" =>
                  /\ c.outcome.kind = "resolved"
                  /\ c.outcome.value.status = Last(c.rsps).status
                  /\ c.outcome.value.body = Last(c.rsps).body
           /\ c.pc = "failed" => c.outcome = Rejected(Last(c.errs))
           /\ Len(c.logs) = Len(c.rsps)

\* C21: of two calls in flight, on one instance or on two, each makes at most
\* 4 transport invocations, hands the transport the request of its own first
\* attempt every time, and is in the position and has the outcome that its
\* own failures and responses determine, whatever the other call did.
C21_CallsIndependent ==
    other.t = "call" => OwnAttemptsAndOutcome(Locals) /\ OwnAttemptsAndOutcome(other.locals)

-----------------------------------------------------------------------------
(* Properties of the two clients *)

\* the call has ended
Ended(c) == c.pc \in {"done", "failed"}

\* C22: when the axios client and the superagent client were given the same
\* request and their transports the same script of outcomes, and both calls
\* have ended, the two made the same number of transport invocations, ended
\* with the same result or the same error, and handed the sink the same
\* number of blocks.
C22_ClientsInterchangeable ==
    (other.t = "twin" /\ Ended(Locals) /\ Ended(other.locals)) =>
        /\ Len(sent) = Len(other.locals.sent)
        /\ outcome = other.locals.outcome
        /\ Len(logs) = Len(other.locals.logs)

-----------------------------------------------------------------------------
(* Properties of formatting twice *)

\* the greatest of a non-empty set of positions
LastPosition(positions) == CHOOSE j \in positions : \A k \in positions : k <= j

\* where the elapsed-time value of a log text starts and where it ends
ElapsedStart(text) ==
    LastPosition({k \in 1..Len(text) : OccursAt(text, k, Chars("::: Response Time: "))})
        + Len(Chars("::: Response Time: "))
ElapsedEnd(text) ==
    LastPosition({k \in 1..Len(text) : OccursAt(text, k, Chars("ms :::"))})

\* a log text with its elapsed-time value taken out
WithoutElapsed(text) ==
    SubSeq(text, 1, ElapsedStart(text) - 1) \o SubSeq(text, ElapsedEnd(text), Len(text))

\* C23: the log text of the second formatting of a (request, response) pair,
\* with the same start timestamp, is the text of the first formatting except
\* for the elapsed-time value.
C23_FormattingRepeatable ==
    Len(logs) = 2 => WithoutElapsed(logs[2]) = WithoutElapsed(logs[1])

C23_Witness ==
    /\ pc = "formattedAgain"
    /\ Len(logs) = 2
    /\ logs[1] # logs[2]
    /\ "Authorization" \in DOMAIN sent[1].headers
    /\ sent[1].data.t = "object"
    /\ "password" \in DOMAIN sent[1].data.props
    /\ sent[1].data.props["password"] = "p4ss"
    /\ data.body.props["password"] = "PASSWORD HIDDEN"
    /\ Contains(logs[2], Chars("PASSWORD HIDDEN"))

-----------------------------------------------------------------------------
(* Properties of termination *)

\* C24: a call that has an attempt in flight eventually ends, resolved with a
\* result or rejected with an error; it does not wait for ever for a server
\* that does not answer.
C24_EveryCallEnds == (pc = "attempt") ~> (pc \in {"done", "failed"})

-----------------------------------------------------------------------------
(* Properties of the URL split *)

\* the base URL the transport was handed by the call in flight
HandedUrl == sent[1].url

\* C25: the base URL handed to the transport is the URL up to its first '?',
\* and, when there is no query object, the query handed over is what the
\* whole text after that first '?' parses to, also when that text holds
\* further '?'.
C25_SplitAtFirstQuestionMark ==
    pc = "attempt" =>
        /\ HandedUrl = BeforeFirst(url, "?")
        /\ data.query.t # "object" =>
               HandedQuery = processQueryObject(processKeyPairs(AfterFirst(url, "?")))

-----------------------------------------------------------------------------
(* Properties of a call without a query object *)

\* C26: without a query object (absent, undefined or null), every named key
\* that the URL gives one value, a non-empty one, is handed to the transport
\* with that value as the URL writes it, and every entry handed over is a key
\* of the URL with a non-empty value that the URL gives it.
C26_UrlPairsOnly ==
    (pc = "attempt" /\ data.query.t # "object") =>
        /\ \A k \in UrlKeys(url) :
               \A v \in UrlValues(url, k) :
                   (k # << >> /\ UrlValues(url, k) = {v} /\ v # << >>) =>
                       k \in DOMAIN HandedQuery /\ HandedQuery[k] = v
        /\ \A k \in DOMAIN HandedQuery :
               HandedQuery[k] # << >> /\ HandedQuery[k] \in UrlValues(url, k)

-----------------------------------------------------------------------------
(* Properties of override and drop *)

\* C27: a key that the query object maps to null, undefined, '' or an empty
\* array is absent from the query handed to the transport, whatever value the
\* URL embeds for it.
C27_OverrideThenDrop ==
    (pc = "attempt" /\ data.query.t = "object") =>
        \A k \in DOMAIN data.query.props :
            ~Present(data.query.props[k]) => k \notin DOMAIN HandedQuery

C27_Witness ==
    /\ pc = "attempt"
    /\ url = BaseText \o << "?", "a", "=", "1" >>
    /\ data.query.t = "object"
    /\ DOMAIN data.query.props = {<< "a" >>}
    /\ data.query.props[<< "a" >>] = JSNull
    /\ << "a" >> \in DOMAIN mergeQueryParameters(url, NoQuery).mergedQuery
    /\ HandedQuery = EmptyObject

\* C28: every value of the query handed to the transport is a non-empty
\* text.
C28_ValuesNonEmpty ==
    pc = "attempt" => \A k \in DOMAIN HandedQuery : HandedQuery[k] # << >>

-----------------------------------------------------------------------------
(* Properties of the sink's place in a call *)

\* C29: a call whose transport has returned a response has made no transport
\* invocation after that one: it has one response, and as many invocations as
\* failures before the response plus the one that was answered, whatever the
\* sink did with the block.
C29_NoResendAfterResponse ==
    rsps # << >> =>
        /\ Len(rsps) = 1
        /\ Len(sent) = Len(errs) + 1

\* C30: when the sink has been handed a block, the transport has returned a
\* response to the last invocation of the call and no attempt is in flight
\* or follows; and a call is resolved only after the sink was handed its
\* block.
C30_SinkAfterLastAttempt ==
    /\ logs # << >> =>
           /\ rsps # << >>
           /\ pc # "attempt"
           /\ Len(logs) = 1
    /\ pc = "done" => logs # << >>

====
